---- MODULE Spec2Model ----
(***************************************************************************)
(* Hash-join helpers of JoinHashTable (hash_join/common.rs): the           *)
(* unmatched-row finalizer of right/full outer joins as a state machine,   *)
(* and the marker / validity helpers as operators applied to bounded       *)
(* inputs.                                                                 *)
(***************************************************************************)
EXTENDS Integers, Sequences, FiniteSets, TLC

\* ------------------------------------------------------------------ bounds
MaxChunks == 2
MaxBuildRows == 3
MaxMatches == 2
MaxLen == 3
MaxCols == 2
MaxMarkerIndex == 11

VARIABLES
    join_type,                \* hash_join_desc.join_type
    chunks,                   \* row_space.chunks: num_rows() of every chunk, in order
    build_indexes,            \* right_join_desc.build_indexes: Vec<RowPtr>
    row_state,                \* right_join_desc.row_state: position -> match count
    phase,                    \* "build", "probe", "finalize" (pipeline barriers)
    fin_pc,                   \* find_unmatched_build_indexes: "idle", "scan", "done"
    chunk_index,              \* outer loop variable of the scan
    row_index,                \* inner loop variable of the scan
    build_indexes_set,        \* local HashSet<&RowPtr>
    unmatched_build_indexes,  \* local Vec<RowPtr>, returned at the end
    locks,                    \* lock guards the finalizer holds
    im_cols, im_num_rows,     \* init_markers: arguments
    im_markers,               \* init_markers: returned Vec<MarkerKind>
    marker_index,             \* hash_join_desc.marker_join_desc.marker_index: Option<usize>
    cmb_has_null, cmb_markers,\* create_marker_block: arguments
    cmb_result,               \* create_marker_block: Result<DataBlock>
    sv_column, sv_validity,   \* set_validity: arguments
    sv_result,                \* set_validity: Result<ColumnRef>
    gof_eval,                 \* get_other_filters: what filter.eval returns on merged_block
    gof_result,               \* get_other_filters: Result<(Option<Bitmap>, bool, bool)>
    build_block, probe_block, \* merge_eq_block: the two borrowed batches
    meb_result,               \* merge_eq_block: Result<DataBlock>
    hash_table,               \* probe_key: HashMap<Key, Vec<RowPtr>>
    pk_key, pk_valids, pk_i,  \* probe_key: key, Option<Bitmap>, row
    pk_result,                \* probe_key: Option<entry>
    find_key_calls,           \* keys hash_table.find_key was called with
    rr_buf, rr_num_columns,   \* read_row: buf, deserializers.len()
    rr_result                 \* read_row: Result<()>

joinVars == <<join_type, chunks, build_indexes, row_state, phase, fin_pc, chunk_index,
              row_index, build_indexes_set, unmatched_build_indexes, locks>>

imVars == <<im_cols, im_num_rows, im_markers>>

cmbVars == <<marker_index, cmb_has_null, cmb_markers, cmb_result>>

svVars == <<sv_column, sv_validity, sv_result>>

gofVars == <<gof_eval, gof_result>>

mebVars == <<build_block, probe_block, meb_result>>

pkVars == <<hash_table, pk_key, pk_valids, pk_i, pk_result, find_key_calls>>

rrVars == <<rr_buf, rr_num_columns, rr_result>>

pureVars == <<imVars, cmbVars, svVars, gofVars, mebVars, pkVars, rrVars>>

vars == <<joinVars, pureVars>>

\* ------------------------------------------------------------------ RowPtr
\* Option<MarkerKind>: None, Some(True), Some(False), Some(Null)
MarkerOptions == {"None", "True", "False", "Null"}

RowPtr(c, r, m) == [chunk_index |-> c, row_index |-> r, marker |-> m]

Position(p) == <<p.chunk_index, p.row_index>>

\* Equality / hash of RowPtr for set membership: position only.
RowPtrEq(a, b) == a.chunk_index = b.chunk_index /\ a.row_index = b.row_index

\* Positions of Row Space: chunk c has rows 0 .. chunks[c+1]-1 (chunk indexes from 0).
RowSpacePositions(cs) ==
    UNION {{<<c, r>> : r \in 0..(cs[c + 1] - 1)} : c \in 0..(Len(cs) - 1)}

\* ------------------------------------------------------------------ HashSet<&RowPtr>
\* build_indexes.iter().collect(): HashSet::insert keeps the element already
\* present, so for each position the first recorded RowPtr stays in the set.
CollectHashSet(v) ==
    {v[i] : i \in {k \in 1..Len(v) : \A j \in 1..(k - 1) : ~RowPtrEq(v[j], v[k])}}

HashSetContains(s, p) == \E e \in s : RowPtrEq(e, p)

\* HashSet::get: the stored element equal to p (unique, by construction).
HashSetGet(s, p) == CHOOSE e \in s : RowPtrEq(e, p)

\* Faulty variant of EntryOrInsert: an existing count is modified.
EntryOrInsert_Increment(m, pos, v) ==
    [q \in DOMAIN m \cup {pos} |-> IF q = pos THEN (IF pos \in DOMAIN m THEN m[pos] + 1 ELSE v)
                                              ELSE m[q]]

\* row_state.entry(row_ptr).or_insert(0)
EntryOrInsert(m, pos, v) ==
    IF pos \in DOMAIN m THEN m ELSE [q \in DOMAIN m \cup {pos} |-> IF q = pos THEN v ELSE m[q]]

\* row_state.entry(row_ptr).and_modify(|e| *e += 1).or_insert(1)
EntryIncrement(m, pos) ==
    [q \in DOMAIN m \cup {pos} |-> IF q = pos THEN (IF pos \in DOMAIN m THEN m[pos] + 1 ELSE 1)
                                              ELSE m[q]]

EmptyMap == [q \in {} |-> 0]

\* ------------------------------------------------------------------ bitmaps
\* Bitmap: a sequence of bits. Option<Bitmap>: [some, bits].
NoBitmap == [some |-> FALSE, bits |-> <<>>]

SomeBitmap(b) == [some |-> TRUE, bits |-> b]

\* MutableBitmap::extend_constant(n, v) on an empty bitmap
ConstantBits(n, v) == [i \in 1..n |-> v]

\* Bitmap::unset_bits
UnsetBits(b) == Cardinality({i \in 1..Len(b) : ~b[i]})

SeqsUpTo(S, n) == UNION {[1..k -> S] : k \in 0..n}

Bitmaps == SeqsUpTo(BOOLEAN, MaxLen)

\* combine_validities_3: bitwise AND of optional bitmaps, None meaning all true.
combine_validities_3(lhs, rhs) ==
    IF ~lhs.some THEN rhs
    ELSE IF ~rhs.some THEN lhs
    ELSE SomeBitmap([i \in 1..Len(lhs.bits) |-> lhs.bits[i] /\ rhs.bits[i]])

\* ------------------------------------------------------------------ columns
ColumnValues == {"a", "b"}

PlainColumn(vs) == [kind |-> "Plain", values |-> vs]

NullColumn(n) == [kind |-> "Null", length |-> n]

NullableColumn(inner, validity) == [kind |-> "Nullable", inner |-> inner, validity |-> validity]

ConstColumn(inner, n) == [kind |-> "Const", inner |-> inner, length |-> n]

is_null(c) == c.kind = "Null"

is_const(c) == c.kind = "Const"

is_nullable(c) == c.kind = "Nullable"

ColumnLen(c) ==
    IF c.kind = "Plain" THEN Len(c.values)
    ELSE IF c.kind = "Nullable" THEN Len(c.inner.values)
    ELSE c.length

\* Column::validity: (is_all_null, Option<&Bitmap>)
ColumnValidity(c) ==
    IF c.kind = "Null" THEN [is_all_null |-> TRUE, valids |-> NoBitmap]
    ELSE IF c.kind = "Nullable" THEN [is_all_null |-> FALSE, valids |-> SomeBitmap(c.validity)]
    ELSE [is_all_null |-> FALSE, valids |-> NoBitmap]

PlainColumns(n) == {PlainColumn(vs) : vs \in [1..n -> ColumnValues]}

\* Nullable over a plain column; the bitmap is as long as the inner column.
NullableColumns(n) ==
    {NullableColumn(PlainColumn(vs), b) : vs \in [1..n -> ColumnValues], b \in [1..n -> BOOLEAN]}

\* Constant: one logical value (a column of one row) repeated n times.
ConstColumns(n) ==
    {ConstColumn(inner, n) : inner \in PlainColumns(1) \cup NullableColumns(1) \cup {NullColumn(1)}}

ColumnsOfLen(n) == PlainColumns(n) \cup NullableColumns(n) \cup ConstColumns(n) \cup {NullColumn(n)}

Columns == UNION {ColumnsOfLen(n) : n \in 0..MaxLen}

\* ------------------------------------------------------------------ join state machine
JoinInit ==
    /\ join_type \in {"Right", "Full"}
    /\ chunks = <<>>
    /\ build_indexes = <<>>
    /\ row_state = EmptyMap
    /\ phase = "build"
    /\ fin_pc = "idle"
    /\ chunk_index = 0
    /\ row_index = 0
    /\ build_indexes_set = {}
    /\ unmatched_build_indexes = <<>>
    /\ locks = {}

RECURSIVE TotalRows(_)
TotalRows(cs) == IF cs = <<>> THEN 0 ELSE Head(cs) + TotalRows(Tail(cs))

\* Build phase: a build-side batch of n rows is appended to Row Space.
PushChunk ==
    /\ phase = "build"
    /\ Len(chunks) < MaxChunks
    /\ \E n \in 0..(MaxBuildRows - TotalRows(chunks)) : chunks' = Append(chunks, n)
    /\ UNCHANGED pureVars
    /\ UNCHANGED <<join_type, build_indexes, row_state, phase, fin_pc, chunk_index,
                   row_index, build_indexes_set, unmatched_build_indexes, locks>>

\* Barrier: build happens-before probe.
FinishBuild ==
    /\ phase = "build"
    /\ phase' = "probe"
    /\ UNCHANGED pureVars
    /\ UNCHANGED <<join_type, chunks, build_indexes, row_state, fin_pc, chunk_index,
                   row_index, build_indexes_set, unmatched_build_indexes, locks>>

\* A probe task records one key match of a build row, with the marker the
\* residual predicate gave it, and counts the match.
ProbeMatch ==
    /\ phase = "probe"
    /\ Len(build_indexes) < MaxMatches
    /\ \E pos \in RowSpacePositions(chunks), m \in MarkerOptions :
          /\ build_indexes' = Append(build_indexes, RowPtr(pos[1], pos[2], m))
          /\ row_state' = EntryIncrement(row_state, pos)
    /\ UNCHANGED pureVars
    /\ UNCHANGED <<join_type, chunks, phase, fin_pc, chunk_index, row_index,
                   build_indexes_set, unmatched_build_indexes, locks>>

\* Build/probe desynchronization: a probe task records a locator that
\* addresses no row of Row Space (chunk_index >= chunks.len(), or row_index
\* >= the chunk's num_rows()).
ProbeMatchDesync ==
    /\ phase = "probe"
    /\ Len(build_indexes) < MaxMatches
    /\ \E c \in 0..MaxChunks, r \in 0..MaxBuildRows, m \in MarkerOptions :
          /\ <<c, r>> \notin RowSpacePositions(chunks)
          /\ build_indexes' = Append(build_indexes, RowPtr(c, r, m))
          /\ row_state' = EntryIncrement(row_state, <<c, r>>)
    /\ UNCHANGED pureVars
    /\ UNCHANGED <<join_type, chunks, phase, fin_pc, chunk_index, row_index,
                   build_indexes_set, unmatched_build_indexes, locks>>

\* Barrier: the finalizer runs after every probe batch is processed.
FinishProbe ==
    /\ phase = "probe"
    /\ phase' = "finalize"
    /\ UNCHANGED pureVars
    /\ UNCHANGED <<join_type, chunks, build_indexes, row_state, fin_pc, chunk_index,
                   row_index, build_indexes_set, unmatched_build_indexes, locks>>

\* find_unmatched_build_indexes, lines 205-210: the result vector, the read
\* guard on build_indexes (held to the end of the function), the set of
\* references, and the read guard on row_space.chunks (held during the loop).
FinBegin ==
    /\ phase = "finalize"
    /\ fin_pc = "idle"
    /\ fin_pc' = "scan"
    /\ unmatched_build_indexes' = <<>>
    /\ build_indexes_set' = CollectHashSet(build_indexes)
    /\ locks' = {"build_indexes.read", "chunks.read"}
    /\ chunk_index' = 0
    /\ row_index' = 0
    /\ UNCHANGED pureVars
    /\ UNCHANGED <<join_type, chunks, build_indexes, row_state, phase>>

\* find_unmatched_build_indexes called again after it has returned: lines
\* 205-210 run anew over the match-count map the first pass left.
FinBeginAgain ==
    /\ phase = "finalize"
    /\ fin_pc = "done"
    /\ phase' = "second pass"
    /\ fin_pc' = "scan"
    /\ unmatched_build_indexes' = <<>>
    /\ build_indexes_set' = CollectHashSet(build_indexes)
    /\ locks' = {"build_indexes.read", "chunks.read"}
    /\ chunk_index' = 0
    /\ row_index' = 0
    /\ UNCHANGED pureVars
    /\ UNCHANGED <<join_type, chunks, build_indexes, row_state>>

\* Faulty variant of UnmatchedRows: the membership test inverted.
UnmatchedRows_Inverted(set, row_ptr) ==
    IF HashSetContains(set, row_ptr) THEN <<row_ptr>> ELSE <<>>

\* Lines 217-221: a row not in the matched set.
UnmatchedRows(set, row_ptr) ==
    IF ~HashSetContains(set, row_ptr) THEN <<row_ptr>> ELSE <<>>

\* Faulty variant of FilteredRows: the full-join branch is missing.
FilteredRows_NoFullBranch(jt, set, row_ptr) == <<>>

\* Faulty variant of FilteredRows: the full-join branch also takes rows absent from the set.
FilteredRows_AlsoAbsent(jt, set, row_ptr) ==
    IF jt = "Full" /\ (~HashSetContains(set, row_ptr)
                       \/ HashSetGet(set, row_ptr).marker = "False")
    THEN <<row_ptr>>
    ELSE <<>>

\* Lines 222-229: full join, a row in the matched set whose stored marker is False.
FilteredRows(jt, set, row_ptr) ==
    IF jt = "Full" /\ HashSetContains(set, row_ptr)
                   /\ HashSetGet(set, row_ptr).marker = "False"
    THEN <<HashSetGet(set, row_ptr)>>
    ELSE <<>>

\* Lines 211-230: one iteration of the inner loop.
FinRow ==
    /\ fin_pc = "scan"
    /\ chunk_index < Len(chunks)
    /\ row_index < chunks[chunk_index + 1]
    /\ LET row_ptr == RowPtr(chunk_index, row_index, "None") IN
          /\ row_state' = IF ~HashSetContains(build_indexes_set, row_ptr)
                          THEN EntryOrInsert(row_state, Position(row_ptr), 0)
                          ELSE row_state
          /\ unmatched_build_indexes' =
                unmatched_build_indexes \o UnmatchedRows(build_indexes_set, row_ptr)
                                        \o FilteredRows(join_type, build_indexes_set, row_ptr)
    /\ row_index' = row_index + 1
    /\ UNCHANGED pureVars
    /\ UNCHANGED <<join_type, chunks, build_indexes, phase, fin_pc, chunk_index,
                   build_indexes_set, locks>>

\* Line 210: the inner range is exhausted, the outer iterator yields the next chunk.
FinNextChunk ==
    /\ fin_pc = "scan"
    /\ chunk_index < Len(chunks)
    /\ row_index = chunks[chunk_index + 1]
    /\ chunk_index' = chunk_index + 1
    /\ row_index' = 0
    /\ UNCHANGED pureVars
    /\ UNCHANGED <<join_type, chunks, build_indexes, row_state, phase, fin_pc,
                   build_indexes_set, unmatched_build_indexes, locks>>

\* Line 232: the chunk iterator is exhausted; the guards drop, the vector is returned.
FinEnd ==
    /\ fin_pc = "scan"
    /\ chunk_index = Len(chunks)
    /\ fin_pc' = "done"
    /\ locks' = {}
    /\ UNCHANGED pureVars
    /\ UNCHANGED <<join_type, chunks, build_indexes, row_state, phase, chunk_index,
                   row_index, build_indexes_set, unmatched_build_indexes>>

JoinNext ==
    \/ PushChunk
    \/ FinishBuild
    \/ ProbeMatch
    \/ FinishProbe
    \/ FinBegin
    \/ FinRow
    \/ FinNextChunk
    \/ FinEnd

\* ------------------------------------------------------------------ set_validity
Pending == [status |-> "pending"]

Idle == [status |-> "idle"]

\* Faulty variant of set_validity_nullable: the existing presence bitmap is overwritten.
set_validity_nullable_Overwrite(col, validity) == NullableColumn(col.inner, validity)

\* Faulty variant of set_validity_nullable: the longer validity is padded as present.
set_validity_nullable_PadTrue(col, validity) ==
    NullableColumn(col.inner,
        [i \in 1..Len(validity) |->
            IF i <= Len(col.validity) THEN validity[i] /\ col.validity[i] ELSE TRUE])

\* Lines 158-167: the bit-AND over the zipped bitmaps, then diff_len unset bits.
set_validity_nullable(col, validity) ==
    NullableColumn(col.inner,
        [i \in 1..Len(validity) |->
            IF i <= Len(col.validity) THEN validity[i] /\ col.validity[i] ELSE FALSE])

\* Line 155: validity.slice(0, 1)
set_validity_const(validity) == SubSeq(validity, 1, 1)

\* Lines 168-170: wrap the column with the given validity.
set_validity_plain(column, validity) == NullableColumn(column, validity)

RECURSIVE set_validity(_, _)
\* Lines 149-172. Bitmap::slice(0, 1) on an empty bitmap and the usize
\* subtraction validity.len() - col.len() below zero end the call by a panic.
set_validity(column, validity) ==
    IF is_null(column) THEN [status |-> "Ok", column |-> column]
    ELSE IF is_const(column) THEN
        IF Len(validity) < 1 THEN [status |-> "Panic"]
        ELSE LET inner == set_validity(column.inner, set_validity_const(validity)) IN
             IF inner.status = "Ok"
             THEN [status |-> "Ok", column |-> ConstColumn(inner.column, column.length)]
             ELSE inner
    ELSE IF is_nullable(column) THEN
        IF Len(validity) < Len(column.validity) THEN [status |-> "Panic"]
        ELSE [status |-> "Ok", column |-> set_validity_nullable(column, validity)]
    ELSE [status |-> "Ok", column |-> set_validity_plain(column, validity)]

SetValidityIdle ==
    /\ sv_column = NullColumn(0)
    /\ sv_validity = <<>>
    /\ sv_result = Idle

SetValidityInit ==
    /\ sv_column \in Columns
    /\ sv_validity \in Bitmaps
    /\ sv_result = Pending

CallSetValidity ==
    /\ sv_result.status = "pending"
    /\ sv_result' = set_validity(sv_column, sv_validity)
    /\ UNCHANGED <<sv_column, sv_validity>>
    /\ UNCHANGED <<joinVars, imVars, cmbVars, gofVars, mebVars, pkVars, rrVars>>

\* ------------------------------------------------------------------ init_markers
\* Key columns of n rows: plain, nullable and the all-null column.
KeyColumns(n) ==
    {PlainColumn(ConstantBits(n, "a"))}
        \cup {NullableColumn(PlainColumn(ConstantBits(n, "a")), b) : b \in [1..n -> BOOLEAN]}
        \cup {NullColumn(n)}

RECURSIVE init_markers_valids(_, _, _)
\* Lines 122-137: the loop over the columns, left by the break of line 131.
init_markers_valids(cols, valids, num_rows) ==
    IF cols = <<>> THEN valids
    ELSE LET v == ColumnValidity(Head(cols)) IN
         IF ~v.is_all_null /\ v.valids.some
         THEN IF UnsetBits(v.valids.bits) = 0
              THEN SomeBitmap(ConstantBits(num_rows, TRUE))
              ELSE init_markers_valids(Tail(cols), combine_validities_3(valids, v.valids),
                                       num_rows)
         ELSE init_markers_valids(Tail(cols), valids, num_rows)

\* Lines 119-147.
init_markers(cols, num_rows) ==
    LET markers == ConstantBits(num_rows, "False") IN
    IF \E k \in 1..Len(cols) : is_nullable(cols[k]) \/ is_null(cols[k])
    THEN LET v == init_markers_valids(cols, NoBitmap, num_rows) IN
         IF v.some
         THEN [idx \in 1..num_rows |-> IF ~v.bits[idx] THEN "Null" ELSE markers[idx]]
         ELSE markers
    ELSE markers

InitMarkersIdle ==
    /\ im_cols = <<>>
    /\ im_num_rows = 0
    /\ im_markers = Idle

InitMarkersInit ==
    /\ im_num_rows \in 0..MaxLen
    /\ im_cols \in SeqsUpTo(KeyColumns(im_num_rows), MaxCols)
    /\ im_markers = Pending

CallInitMarkers ==
    /\ im_markers.status = "pending"
    /\ im_markers' = [status |-> "Ok", markers |-> init_markers(im_cols, im_num_rows)]
    /\ UNCHANGED <<im_cols, im_num_rows>>
    /\ UNCHANGED <<joinVars, cmbVars, svVars, gofVars, mebVars, pkVars, rrVars>>

\* ------------------------------------------------------------------ create_marker_block
MarkerKinds == {"True", "False", "Null"}

NoIndex == [some |-> FALSE, value |-> 0]

SomeIndex(n) == [some |-> TRUE, value |-> n]

MarkerIndexes == {NoIndex} \cup {SomeIndex(n) : n \in 0..MaxMarkerIndex}

Digits == <<"0", "1", "2", "3", "4", "5", "6", "7", "8", "9">>

RECURSIVE to_string(_)
\* usize::to_string: the decimal digits, most significant first.
to_string(n) ==
    IF n < 10 THEN <<Digits[n + 1]>> ELSE to_string(n \div 10) \o <<Digits[(n % 10) + 1]>>

DataField(name, data_type) == [name |-> name, data_type |-> data_type]

DataBlock(fields, columns) == [schema |-> fields, columns |-> columns]

\* Faulty variant of effective_marker: has_null is ignored.
effective_marker_IgnoreHasNull(m, has_null) == m

\* Lines 87-91.
effective_marker(m, has_null) == IF m = "False" /\ has_null THEN "Null" ELSE m

\* Faulty variant of marker_schema: an unset index falls back to the default index 0.
marker_schema_DefaultIndex(index) ==
    [status |-> "Ok",
     schema |-> <<DataField(to_string(index.value), "Nullable(Boolean)")>>]

\* Lines 105-113: the schema of one field named by the mark-column index.
marker_schema(index) ==
    IF ~index.some THEN [status |-> "Err", code |-> "LogicalError"]
    ELSE [status |-> "Ok",
          schema |-> <<DataField(to_string(index.value), "Nullable(Boolean)")>>]

\* Lines 78-117.
create_marker_block(index, has_null, markers) ==
    LET marker(i) == effective_marker(markers[i], has_null)
        validity == [i \in 1..Len(markers) |-> marker(i) # "Null"]
        boolean_bit_map == [i \in 1..Len(markers) |-> marker(i) = "True"]
        marker_column == set_validity(PlainColumn(boolean_bit_map), validity)
        marker_schema_ == marker_schema(index)
    IN  IF marker_column.status # "Ok" THEN marker_column
        ELSE IF marker_schema_.status # "Ok" THEN marker_schema_
        ELSE [status |-> "Ok",
              block |-> DataBlock(marker_schema_.schema, <<marker_column.column>>)]

CreateMarkerBlockIdle ==
    /\ marker_index = NoIndex
    /\ cmb_has_null = FALSE
    /\ cmb_markers = <<>>
    /\ cmb_result = Idle

CreateMarkerBlockInit ==
    /\ marker_index \in MarkerIndexes
    /\ cmb_has_null \in BOOLEAN
    /\ cmb_markers \in SeqsUpTo(MarkerKinds, MaxLen)
    /\ cmb_result = Pending

CallCreateMarkerBlock ==
    /\ cmb_result.status = "pending"
    /\ cmb_result' = create_marker_block(marker_index, cmb_has_null, cmb_markers)
    /\ UNCHANGED <<marker_index, cmb_has_null, cmb_markers>>
    /\ UNCHANGED <<joinVars, imVars, svVars, gofVars, mebVars, pkVars, rrVars>>

\* ------------------------------------------------------------------ get_other_filters
BooleanPlainColumns(n) == {PlainColumn(vs) : vs \in [1..n -> BOOLEAN]}

BooleanNullableColumns(n) ==
    {NullableColumn(PlainColumn(vs), b) : vs \in [1..n -> BOOLEAN], b \in [1..n -> BOOLEAN]}

\* What the residual predicate can evaluate to over a batch of n rows: a
\* constant (true, false or NULL), or one boolean (possibly NULL) per row.
FilterVectors(n) ==
    {ConstColumn(inner, n) :
        inner \in BooleanPlainColumns(1) \cup BooleanNullableColumns(1) \cup {NullColumn(1)}}
        \cup BooleanPlainColumns(n) \cup BooleanNullableColumns(n)

RECURSIVE cast_to_nonull_boolean(_)
\* DataBlock::cast_to_nonull_boolean: a NULL result counts as false; a
\* constant stays a constant.
cast_to_nonull_boolean(c) ==
    IF is_const(c) THEN ConstColumn(cast_to_nonull_boolean(c.inner), c.length)
    ELSE IF is_nullable(c)
    THEN PlainColumn([i \in 1..Len(c.validity) |-> c.inner.values[i] /\ c.validity[i]])
    ELSE IF is_null(c) THEN PlainColumn(ConstantBits(c.length, FALSE))
    ELSE c

\* Faulty variant of constant_filter: all_false repeats the value instead of negating it.
constant_filter_NotNegated(v) ==
    [status |-> "Ok", bitmap |-> NoBitmap, all_true |-> v, all_false |-> v]

\* Lines 186-189: the faster path for a constant filter.
constant_filter(v) ==
    [status |-> "Ok", bitmap |-> NoBitmap, all_true |-> v, all_false |-> ~v]

\* Lines 175-200. eval is the outcome of filter.eval on the merged block.
get_other_filters(eval) ==
    IF eval.status # "Ok" THEN eval
    ELSE LET predict_boolean_nonull == cast_to_nonull_boolean(eval.vector) IN
         IF is_const(predict_boolean_nonull)
         THEN constant_filter(predict_boolean_nonull.inner.values[1])
         ELSE LET values == predict_boolean_nonull.values
                  rows == Len(values)
                  count_zeros == UnsetBits(values)
              IN  [status |-> "Ok", bitmap |-> SomeBitmap(values),
                   all_true |-> (count_zeros = 0), all_false |-> (rows = count_zeros)]

GetOtherFiltersIdle ==
    /\ gof_eval = Idle
    /\ gof_result = Idle

GetOtherFiltersInit ==
    /\ gof_eval \in {[status |-> "Err", code |-> "EvalError"]}
                       \cup {[status |-> "Ok", vector |-> v] :
                                v \in UNION {FilterVectors(n) : n \in 0..MaxLen}}
    /\ gof_result = Pending

CallGetOtherFilters ==
    /\ gof_result.status = "pending"
    /\ gof_result' = get_other_filters(gof_eval)
    /\ UNCHANGED gof_eval
    /\ UNCHANGED <<joinVars, imVars, cmbVars, svVars, mebVars, pkVars, rrVars>>

\* ------------------------------------------------------------------ merge_eq_block
FieldNames == {"x", "y"}

\* Columns of n rows a batch is made of here.
BatchColumns(n) ==
    {PlainColumn(ConstantBits(n, v)) : v \in ColumnValues} \cup {NullColumn(n)}

\* Batches of n rows: up to MaxCols named columns, all of n rows.
DataBlocks(n) ==
    UNION {{DataBlock([i \in 1..k |-> DataField(names[i], "T")], cs) :
               names \in [1..k -> FieldNames], cs \in [1..k -> BatchColumns(n)]} :
           k \in 0..MaxCols}

\* DataBlock::add_column: the column and its field are appended.
add_column(block, col, field) ==
    DataBlock(Append(block.schema, field), Append(block.columns, col))

RECURSIVE merge_columns(_, _, _)
\* Lines 54-60: the loop over the zipped columns and fields of build_block.
merge_columns(probe, cols, fields) ==
    IF cols = <<>> \/ fields = <<>> THEN probe
    ELSE merge_columns(add_column(probe, Head(cols), Head(fields)), Tail(cols), Tail(fields))

\* Faulty variant of merge_eq_block: the build columns are added to the probe batch
\* itself instead of a clone of it.
merge_eq_block_InPlace(build, probe) ==
    LET merged == merge_columns(probe, build.columns, build.schema) IN
    [result |-> [status |-> "Ok", block |-> merged], build_block |-> build,
     probe_block |-> merged]

\* Lines 48-62: the returned batch, and the two borrowed batches after the call.
merge_eq_block(build, probe) ==
    LET cloned == probe IN
    [result |-> [status |-> "Ok",
                 block |-> merge_columns(cloned, build.columns, build.schema)],
     build_block |-> build, probe_block |-> probe]

EmptyBlock == DataBlock(<<>>, <<>>)

MergeEqBlockIdle ==
    /\ build_block = EmptyBlock
    /\ probe_block = EmptyBlock
    /\ meb_result = Idle

MergeEqBlockInit ==
    /\ \E n \in 0..MaxLen :
          /\ build_block \in DataBlocks(n)
          /\ probe_block \in DataBlocks(n)
    /\ meb_result = Pending

CallMergeEqBlock ==
    /\ meb_result.status = "pending"
    /\ LET call == merge_eq_block(build_block, probe_block) IN
          /\ meb_result' = call.result
          /\ build_block' = call.build_block
          /\ probe_block' = call.probe_block
    /\ UNCHANGED <<joinVars, imVars, cmbVars, svVars, gofVars, pkVars, rrVars>>

\* ------------------------------------------------------------------ probe_key
Keys == {"k1", "k2"}

\* The row lists a key of the hash table maps to.
RowPtrLists == {<<RowPtr(0, 0, "None")>>, <<RowPtr(0, 0, "None"), RowPtr(0, 1, "None")>>}

HashTables == UNION {[ks -> RowPtrLists] : ks \in SUBSET Keys}

NoEntry == [some |-> FALSE, key |-> "", value |-> <<>>]

\* HashMap::find_key: the entry of the key, if the table holds one.
find_key(table, key) ==
    IF key \in DOMAIN table THEN [some |-> TRUE, key |-> key, value |-> table[key]]
    ELSE NoEntry

\* Faulty variant of probe_key: the validity bitmap is not consulted.
probe_key_IgnoreValids(table, key, valids, i) ==
    [result |-> find_key(table, key), find_key_calls |-> <<key>>]

\* Lines 65-76: the returned entry and the calls made to find_key.
probe_key(table, key, valids, i) ==
    IF (IF valids.some THEN valids.bits[i + 1] ELSE TRUE)
    THEN [result |-> find_key(table, key), find_key_calls |-> <<key>>]
    ELSE [result |-> NoEntry, find_key_calls |-> <<>>]

ProbeKeyIdle ==
    /\ hash_table = [k \in {} |-> <<>>]
    /\ pk_key = ""
    /\ pk_valids = NoBitmap
    /\ pk_i = 0
    /\ pk_result = Idle
    /\ find_key_calls = <<>>

ProbeKeyInit ==
    /\ hash_table \in HashTables
    /\ pk_key \in Keys
    /\ pk_valids \in {NoBitmap} \cup {SomeBitmap(b) : b \in Bitmaps \ {<<>>}}
    /\ pk_i \in 0..(MaxLen - 1)
    /\ pk_valids.some => pk_i < Len(pk_valids.bits)
    /\ pk_result = Pending
    /\ find_key_calls = <<>>

CallProbeKey ==
    /\ pk_result.status = "pending"
    /\ LET call == probe_key(hash_table, pk_key, pk_valids, pk_i) IN
          /\ pk_result' = [status |-> "Ok", entry |-> call.result]
          /\ find_key_calls' = find_key_calls \o call.find_key_calls
    /\ UNCHANGED <<hash_table, pk_key, pk_valids, pk_i>>
    /\ UNCHANGED <<joinVars, imVars, cmbVars, svVars, gofVars, mebVars, rrVars>>

\* ------------------------------------------------------------------ InputFormatTSV::read_row
\* The field delimiter byte of the TSV format.
field_delimiter == "TAB"

\* Bytes of a row: the delimiter, a byte of a well-formed field, a byte
\* read_field cannot decode, a byte read_field leaves unread.
Bytes == {field_delimiter, "a", "?", "!"}

Buffers == SeqsUpTo(Bytes, MaxLen)

\* field_decoder.read_field(&mut deserializers[column_index], &mut reader, true)
read_field_ok(col_data) == \A k \in 1..Len(col_data) : col_data[k] # "?"

\* reader.must_eof()
must_eof_ok(col_data) == \A k \in 1..Len(col_data) : col_data[k] # "!"

\* Line 108-112: Err(ErrorCode::BadBytes(msg)), msg built from err_msg.
BadBytes(m) == [status |-> "Err", code |-> "BadBytes", err_msg |-> m]

\* format_column_error(schema, column_index, col_data, msg)
format_column_error(column_index, col_data, msg) ==
    <<"column", column_index, col_data, msg>>

\* Lines 100-114: after the loop without an error message.
read_row_end(num_columns, column_index) ==
    IF column_index < num_columns
    THEN BadBytes(<<"need", num_columns, "columns, find", column_index, "only">>)
    ELSE [status |-> "Ok"]

RECURSIVE read_row_loop(_, _, _, _, _)
\* Lines 59-99: the loop from position pos (from 0). deserializers[column_index]
\* at lines 63 and 68 is a bounds-checked Vec index: an index of
\* num_columns or more ends the call by a panic.
read_row_loop(buf, num_columns, pos, column_index, field_start) ==
    IF ~(pos <= Len(buf)) THEN read_row_end(num_columns, column_index)
    ELSE IF pos = Len(buf) \/ buf[pos + 1] = field_delimiter THEN
        LET col_data == SubSeq(buf, field_start + 1, pos) IN
        IF ~(column_index < num_columns) THEN [status |-> "Panic"]
        ELSE IF col_data # <<>> /\ ~read_field_ok(col_data)
            THEN BadBytes(format_column_error(column_index, col_data, "read_field"))
        ELSE IF col_data # <<>> /\ ~must_eof_ok(col_data)
            THEN BadBytes(format_column_error(column_index, col_data, "bad field end"))
        ELSE IF column_index + 1 > num_columns
            THEN BadBytes(<<"too many columns">>)
        ELSE read_row_loop(buf, num_columns, pos + 1, column_index + 1, pos + 1)
    ELSE read_row_loop(buf, num_columns, pos + 1, column_index, field_start)

\* Lines 46-115.
read_row(buf, num_columns) == read_row_loop(buf, num_columns, 0, 0, 0)

ReadRowIdle ==
    /\ rr_buf = <<>>
    /\ rr_num_columns = 1
    /\ rr_result = Idle

\* A schema has at least one column.
ReadRowInit ==
    /\ rr_buf \in Buffers
    /\ rr_num_columns \in 1..MaxCols
    /\ rr_result = Pending

CallReadRow ==
    /\ rr_result.status = "pending"
    /\ rr_result' = read_row(rr_buf, rr_num_columns)
    /\ UNCHANGED <<rr_buf, rr_num_columns>>
    /\ UNCHANGED <<joinVars, imVars, cmbVars, svVars, gofVars, mebVars, pkVars>>

\* ------------------------------------------------------------------ specifications
JoinIdle ==
    /\ join_type = "Right"
    /\ chunks = <<>>
    /\ build_indexes = <<>>
    /\ row_state = EmptyMap
    /\ phase = "idle"
    /\ fin_pc = "idle"
    /\ chunk_index = 0
    /\ row_index = 0
    /\ build_indexes_set = {}
    /\ unmatched_build_indexes = <<>>
    /\ locks = {}

PureIdle ==
    /\ InitMarkersIdle
    /\ CreateMarkerBlockIdle
    /\ SetValidityIdle
    /\ GetOtherFiltersIdle
    /\ MergeEqBlockIdle
    /\ ProbeKeyIdle
    /\ ReadRowIdle

Init == JoinInit /\ PureIdle

Next == JoinNext

Spec == Init /\ [][Next]_vars

\* The join with a desynchronized probe phase.
NextDesync == JoinNext \/ ProbeMatchDesync

SpecDesync == Init /\ [][NextDesync]_vars

\* The join with a second run of the finalizer.
NextRepass == JoinNext \/ FinBeginAgain

SpecRepass == Init /\ [][NextRepass]_vars

InitSetValidity ==
    /\ JoinIdle
    /\ InitMarkersIdle /\ CreateMarkerBlockIdle /\ SetValidityInit
    /\ GetOtherFiltersIdle /\ MergeEqBlockIdle /\ ProbeKeyIdle
    /\ ReadRowIdle

SpecSetValidity == InitSetValidity /\ [][CallSetValidity]_vars

InitInitMarkers ==
    /\ JoinIdle
    /\ InitMarkersInit /\ CreateMarkerBlockIdle /\ SetValidityIdle
    /\ GetOtherFiltersIdle /\ MergeEqBlockIdle /\ ProbeKeyIdle
    /\ ReadRowIdle

SpecInitMarkers == InitInitMarkers /\ [][CallInitMarkers]_vars

InitCreateMarkerBlock ==
    /\ JoinIdle
    /\ InitMarkersIdle /\ CreateMarkerBlockInit /\ SetValidityIdle
    /\ GetOtherFiltersIdle /\ MergeEqBlockIdle /\ ProbeKeyIdle
    /\ ReadRowIdle

SpecCreateMarkerBlock == InitCreateMarkerBlock /\ [][CallCreateMarkerBlock]_vars

InitGetOtherFilters ==
    /\ JoinIdle
    /\ InitMarkersIdle /\ CreateMarkerBlockIdle /\ SetValidityIdle
    /\ GetOtherFiltersInit /\ MergeEqBlockIdle /\ ProbeKeyIdle
    /\ ReadRowIdle

SpecGetOtherFilters == InitGetOtherFilters /\ [][CallGetOtherFilters]_vars

InitMergeEqBlock ==
    /\ JoinIdle
    /\ InitMarkersIdle /\ CreateMarkerBlockIdle /\ SetValidityIdle
    /\ GetOtherFiltersIdle /\ MergeEqBlockInit /\ ProbeKeyIdle
    /\ ReadRowIdle

SpecMergeEqBlock == InitMergeEqBlock /\ [][CallMergeEqBlock]_vars

InitProbeKey ==
    /\ JoinIdle
    /\ InitMarkersIdle /\ CreateMarkerBlockIdle /\ SetValidityIdle
    /\ GetOtherFiltersIdle /\ MergeEqBlockIdle /\ ProbeKeyInit
    /\ ReadRowIdle

SpecProbeKey == InitProbeKey /\ [][CallProbeKey]_vars

InitReadRow ==
    /\ JoinIdle
    /\ InitMarkersIdle /\ CreateMarkerBlockIdle /\ SetValidityIdle
    /\ GetOtherFiltersIdle /\ MergeEqBlockIdle /\ ProbeKeyIdle
    /\ ReadRowInit

SpecReadRow == InitReadRow /\ [][CallReadRow]_vars

\* ------------------------------------------------------------------ finalizer claims
\* Number of entries of vector v at the position of p.
Occurrences(v, pos) == Cardinality({i \in 1..Len(v) : Position(v[i]) = pos})

\* Markers recorded for a position during probing, in the matched build-row set.
RecordedMarkers(pos) ==
    {build_indexes[i].marker : i \in {k \in 1..Len(build_indexes) :
                                        Position(build_indexes[k]) = pos}}

\* Row Space storage order: chunk-major, then row-minor.
StorageBefore(a, b) ==
    \/ a.chunk_index < b.chunk_index
    \/ a.chunk_index = b.chunk_index /\ a.row_index < b.row_index

\* C1: after find_unmatched_build_indexes completes, every build row of Row
\* Space that is not in the matched build-row set occurs exactly once in the
\* returned list and has an entry in row_state whose count is 0.
C1_FinalizerCompleteness ==
    fin_pc = "done" =>
        \A pos \in RowSpacePositions(chunks) :
            RecordedMarkers(pos) = {} =>
                /\ Occurrences(unmatched_build_indexes, pos) = 1
                /\ pos \in DOMAIN row_state
                /\ row_state[pos] = 0

\* C1 witness: a completed run over a Row Space with a matched row and a
\* never-matched row.
C1_Witness ==
    /\ fin_pc = "done"
    /\ \E pos \in RowSpacePositions(chunks) : RecordedMarkers(pos) = {}
    /\ \E pos \in RowSpacePositions(chunks) : RecordedMarkers(pos) # {}

\* C2: in a full join, a build row in the matched set whose every recorded
\* marker is False is in the list the finalizer returns.
C2_FullJoinResidualExcluded ==
    (fin_pc = "done" /\ join_type = "Full") =>
        \A pos \in RowSpacePositions(chunks) :
            RecordedMarkers(pos) = {"False"} =>
                Occurrences(unmatched_build_indexes, pos) >= 1

\* C2 witness: a completed full join where a row was matched by key twice and
\* rejected by the residual predicate both times.
C2_Witness ==
    /\ fin_pc = "done"
    /\ join_type = "Full"
    /\ \E pos \in RowSpacePositions(chunks) :
          /\ RecordedMarkers(pos) = {"False"}
          /\ Cardinality({k \in 1..Len(build_indexes) :
                             Position(build_indexes[k]) = pos}) = 2

\* C5: the list a completed run returns is in Row Space storage order and
\* holds no build-row position twice.
C5_StorageOrderNoDuplicates ==
    fin_pc = "done" =>
        /\ \A i, j \in 1..Len(unmatched_build_indexes) :
              i < j => ~StorageBefore(unmatched_build_indexes[j], unmatched_build_indexes[i])
        /\ \A pos \in RowSpacePositions(chunks) :
              Occurrences(unmatched_build_indexes, pos) <= 1

\* C5 witness: a completed full join returning a never-matched row and a
\* residual-rejected row, from two different chunks, and two rows of one chunk.
C5_Witness ==
    /\ fin_pc = "done"
    /\ join_type = "Full"
    /\ \E i, j \in 1..Len(unmatched_build_indexes) :
          /\ unmatched_build_indexes[i].chunk_index < unmatched_build_indexes[j].chunk_index
          /\ unmatched_build_indexes[i].marker # unmatched_build_indexes[j].marker
    /\ \E i, j \in 1..Len(unmatched_build_indexes) :
          /\ unmatched_build_indexes[i].chunk_index = unmatched_build_indexes[j].chunk_index
          /\ unmatched_build_indexes[i].row_index < unmatched_build_indexes[j].row_index

\* ------------------------------------------------------------------ column claims
RECURSIVE PresentAt(_, _)
\* Whether the column holds a value (is not NULL) at position i (from 1).
PresentAt(c, i) ==
    IF c.kind = "Plain" THEN TRUE
    ELSE IF c.kind = "Null" THEN FALSE
    ELSE IF c.kind = "Const" THEN PresentAt(c.inner, 1)
    ELSE i <= Len(c.validity) /\ c.validity[i] /\ PresentAt(c.inner, i)

RECURSIVE ValueAt(_, _)
\* The stored value at position i (from 1), whatever the presence.
ValueAt(c, i) ==
    IF c.kind = "Plain" THEN c.values[i]
    ELSE IF c.kind = "Null" THEN "NULL"
    ELSE IF c.kind = "Const" THEN ValueAt(c.inner, 1)
    ELSE ValueAt(c.inner, i)

\* The claim's case: a plain, constant or nullable column and a validity
\* bitmap of the column's length.
SameLengthCall(kinds) ==
    /\ sv_result.status # "pending"
    /\ sv_column.kind \in kinds
    /\ Len(sv_validity) = ColumnLen(sv_column)

PresenceIsIntersection ==
    /\ sv_result.status = "Ok"
    /\ ColumnLen(sv_result.column) = ColumnLen(sv_column)
    /\ \A i \in 1..ColumnLen(sv_column) :
          /\ PresentAt(sv_result.column, i) <=> (sv_validity[i] /\ PresentAt(sv_column, i))
          /\ ValueAt(sv_result.column, i) = ValueAt(sv_column, i)

C8_WitnessConst ==
    /\ sv_result.status = "Ok"
    /\ sv_column.kind = "Const"
    /\ Len(sv_validity) = ColumnLen(sv_column)
    /\ \E i \in 2..ColumnLen(sv_column) : sv_validity[1] /\ ~sv_validity[i]

\* ------------------------------------------------------------------ marker claims
\* The key column is NULL at row i (from 1).
NullAt(c, i) == ~PresentAt(c, i)

\* The call init_markers(cols, 2) with cols = [nullable [NULL, a], nullable
\* [a, a]]: row 0 has a NULL key component.
C3_FailingInput ==
    /\ im_num_rows = 2
    /\ im_cols = <<NullableColumn(PlainColumn(<<"a", "a">>), <<FALSE, TRUE>>),
                   NullableColumn(PlainColumn(<<"a", "a">>), <<TRUE, TRUE>>)>>

\* What init_markers returns on C3_FailingInput: False at both rows.
C3_FailingOutput ==
    (C3_FailingInput /\ im_markers.status = "Ok") => im_markers.markers = <<"False", "False">>

\* C3: if at least one key column is NULL at row i, init_markers assigns
\* Null at position i, for every order of the columns and whatever the other
\* columns are.
C3_NullKeyPreFlagged ==
    im_markers.status = "Ok" =>
        \A i \in 1..im_num_rows :
            (\E k \in 1..Len(im_cols) : NullAt(im_cols[k], i)) => im_markers.markers[i] = "Null"

\* The nullable boolean the marker block holds at row i: "NULL", TRUE or FALSE.
OutputAt(block, i) ==
    IF ~PresentAt(block.columns[1], i) THEN "NULL"
    ELSE IF ValueAt(block.columns[1], i) THEN "TRUE" ELSE "FALSE"

\* C4: create_marker_block outputs one nullable boolean per marker, in
\* order: NULL iff the marker is Null, or False with has_null; true iff the
\* marker is True; non-NULL false iff the marker is False without has_null.
C4_MarkerBlockThreeValued ==
    cmb_result.status = "Ok" =>
        /\ ColumnLen(cmb_result.block.columns[1]) = Len(cmb_markers)
        /\ \A i \in 1..Len(cmb_markers) :
              LET out == OutputAt(cmb_result.block, i) IN
              /\ out = "NULL" <=> (cmb_markers[i] = "Null"
                                     \/ (cmb_markers[i] = "False" /\ cmb_has_null))
              /\ out = "TRUE" <=> cmb_markers[i] = "True"
              /\ out = "FALSE" <=> (cmb_markers[i] = "False" /\ ~cmb_has_null)

\* C4 witness: a returned block for markers holding True, False and Null,
\* with has_null set.
C4_Witness ==
    /\ cmb_result.status = "Ok"
    /\ cmb_has_null
    /\ {cmb_markers[i] : i \in 1..Len(cmb_markers)} = MarkerKinds

RECURSIVE parse_decimal(_)
\* The number a sequence of decimal digits denotes.
parse_decimal(ds) ==
    IF ds = <<>> THEN 0
    ELSE 10 * parse_decimal(SubSeq(ds, 1, Len(ds) - 1))
            + ((CHOOSE d \in 1..10 : Digits[d] = ds[Len(ds)]) - 1)

\* C10: with no mark-column index configured, create_marker_block returns a
\* LogicalError and no batch, whatever the markers and has_null; with an
\* index it returns a batch of exactly one nullable-boolean field named by
\* the decimal form of the index.
C10_MarkIndexRequired ==
    cmb_result.status # "pending" =>
        IF ~marker_index.some
        THEN /\ cmb_result.status = "Err"
             /\ cmb_result.code = "LogicalError"
             /\ "block" \notin DOMAIN cmb_result
        ELSE /\ cmb_result.status = "Ok"
             /\ Len(cmb_result.block.schema) = 1
             /\ Len(cmb_result.block.columns) = 1
             /\ cmb_result.block.schema[1].data_type = "Nullable(Boolean)"
             /\ cmb_result.block.columns[1].kind = "Nullable"
             /\ Len(cmb_result.block.schema[1].name) >= 1
             /\ parse_decimal(cmb_result.block.schema[1].name) = marker_index.value

\* C10 witness: the call has failed on an unset index with a non-empty
\* markers vector.
C10_Witness ==
    /\ cmb_result.status = "Err"
    /\ ~marker_index.some
    /\ Len(cmb_markers) >= 1

C10_WitnessConfigured ==
    /\ cmb_result.status = "Ok"
    /\ marker_index.some
    /\ marker_index.value >= 10

\* ------------------------------------------------------------------ residual predicate claims
\* The logical value of a constant filter vector: true, or false for a
\* constant false and for a constant NULL.
ConstantValue(c) == PresentAt(c, 1) /\ ValueAt(c, 1)

\* The constant evaluated per row: one entry per row, each the constant.
PerRow(c) ==
    IF c.inner.kind = "Plain"
    THEN PlainColumn(ConstantBits(c.length, c.inner.values[1]))
    ELSE IF c.inner.kind = "Nullable"
    THEN NullableColumn(PlainColumn(ConstantBits(c.length, c.inner.inner.values[1])),
                        ConstantBits(c.length, c.inner.validity[1]))
    ELSE NullableColumn(PlainColumn(ConstantBits(c.length, FALSE)),
                        ConstantBits(c.length, FALSE))

\* The rows of a batch of n rows the caller admits under a result: all of
\* them on all_true, none on all_false, else those the bitmap sets.
AdmittedRows(r, n) ==
    {i \in 1..n : IF r.all_true THEN TRUE
                  ELSE IF r.all_false THEN FALSE
                  ELSE r.bitmap.bits[i]}

\* C6: when the residual predicate evaluates to a constant C (a constant
\* NULL counting as false), get_other_filters returns (None, C, !C), and
\* that admits the same rows as the result for the per-row vector of C.
C6_ConstantFilterFastPath ==
    (gof_result.status # "pending" /\ gof_eval.status = "Ok" /\ is_const(gof_eval.vector)) =>
        LET C == ConstantValue(gof_eval.vector)
            n == gof_eval.vector.length
        IN  /\ gof_result = [status |-> "Ok", bitmap |-> NoBitmap,
                             all_true |-> C, all_false |-> ~C]
            /\ AdmittedRows(gof_result, n)
                  = AdmittedRows(get_other_filters([status |-> "Ok",
                                                    vector |-> PerRow(gof_eval.vector)]), n)

\* C6 witness: the call has returned for a constant NULL predicate over a
\* batch of at least two rows.
C6_Witness ==
    /\ gof_result.status = "Ok"
    /\ gof_eval.status = "Ok"
    /\ is_const(gof_eval.vector)
    /\ ~PresentAt(gof_eval.vector, 1)
    /\ gof_eval.vector.length >= 2

\* ------------------------------------------------------------------ merge claims
\* DataBlock::num_rows: the length of the first column, 0 without columns.
NumRows(block) == IF block.columns = <<>> THEN 0 ELSE ColumnLen(block.columns[1])

\* C7: for batches B and P of the same row count n, merge_eq_block(B, P)
\* returns a batch of n rows whose schema is schema(P) followed by schema(B),
\* whose first cols(P) columns are the columns of P (then those of B), and
\* the call leaves B and P as they were.
C7_MergeEqBlock ==
    [][(meb_result.status = "pending" /\ meb_result'.status # "pending"
            /\ NumRows(build_block) = NumRows(probe_block)) =>
          /\ meb_result'.status = "Ok"
          /\ NumRows(meb_result'.block) = NumRows(probe_block)
          /\ \A i \in 1..Len(meb_result'.block.columns) :
                ColumnLen(meb_result'.block.columns[i]) = NumRows(probe_block)
          /\ meb_result'.block.schema = probe_block.schema \o build_block.schema
          /\ Len(meb_result'.block.columns)
                = Len(probe_block.columns) + Len(build_block.columns)
          /\ \A i \in 1..Len(probe_block.columns) :
                meb_result'.block.columns[i] = probe_block.columns[i]
          /\ build_block' = build_block
          /\ probe_block' = probe_block]_vars

\* C7 witness: the call has returned for two batches of two columns each,
\* with at least two rows and different probe and build schemas.
C7_Witness ==
    /\ meb_result.status = "Ok"
    /\ Len(probe_block.columns) = 2
    /\ Len(build_block.columns) = 2
    /\ NumRows(probe_block) >= 2
    /\ NumRows(build_block) = NumRows(probe_block)
    /\ probe_block.schema # build_block.schema
    /\ probe_block.columns # build_block.columns

\* ------------------------------------------------------------------ probe claims
\* C9: when the key validity bitmap is present and its bit at row i is
\* unset, probe_key returns no match and makes no lookup in the hash index,
\* even if the index holds the key; otherwise it returns exactly what the
\* lookup of the key returns.
C9_NullKeyNeverProbes ==
    pk_result.status = "Ok" =>
        IF pk_valids.some /\ ~pk_valids.bits[pk_i + 1]
        THEN /\ ~pk_result.entry.some
             /\ find_key_calls = <<>>
        ELSE /\ pk_result.entry.some <=> pk_key \in DOMAIN hash_table
             /\ pk_result.entry.some =>
                   /\ pk_result.entry.key = pk_key
                   /\ pk_result.entry.value = hash_table[pk_key]
             /\ find_key_calls = <<pk_key>>

\* C9 witness: the call has returned for a NULL key at a row other than the
\* first while the hash index holds an entry for the key value.
C9_Witness ==
    /\ pk_result.status = "Ok"
    /\ pk_valids.some
    /\ pk_i >= 1
    /\ ~pk_valids.bits[pk_i + 1]
    /\ pk_key \in DOMAIN hash_table

\* ------------------------------------------------------------------ finalizer failure claims
\* Locators of the matched build-row set that address no row of Row Space.
OutOfBoundsLocators ==
    {i \in 1..Len(build_indexes) : Position(build_indexes[i]) \notin RowSpacePositions(chunks)}

\* C11: if the matched build-row set holds a locator outside Row Space
\* bounds at finalization, find_unmatched_build_indexes does not return a
\* result (fin_pc = "done" is the return of Ok at line 232): it fails.
C11_OutOfBoundsAborts ==
    OutOfBoundsLocators # {} => fin_pc # "done"

\* ------------------------------------------------------------------ lock claims
\* The guards on the matched build-row set and on the row match-count map.
MatchStateLocks == {"build_indexes.read", "build_indexes.write",
                    "row_state.read", "row_state.write"}

\* C12: a critical section on the matched-set lock or on the match-count
\* lock covers a single map operation: while the finalizer scans Row Space
\* (and so while it goes on to take the row_state write lock for a row
\* absent from the set) it holds none of these locks.
C12_SingleOperationSections ==
    fin_pc = "scan" => locks \cap MatchStateLocks = {}

\* ------------------------------------------------------------------ set_validity length claims
\* The claim's case: set_validity has been applied to a Nullable column
\* whose bitmap is no longer than the validity.
LongerValidityCall ==
    /\ sv_result.status # "pending"
    /\ sv_column.kind = "Nullable"
    /\ Len(sv_validity) >= Len(sv_column.validity)

\* C13: for a Nullable column with a bitmap of length m and a validity of
\* length n >= m, set_validity returns a Nullable column over the same
\* inner column whose bitmap has length n, with bit i equal to validity[i]
\* AND existing[i] for i < m and unset for m <= i < n.
C13_LongerValidityPadsUnset ==
    LongerValidityCall =>
        /\ sv_result.status = "Ok"
        /\ sv_result.column.kind = "Nullable"
        /\ sv_result.column.inner = sv_column.inner
        /\ Len(sv_result.column.validity) = Len(sv_validity)
        /\ \A i \in 1..Len(sv_validity) :
              sv_result.column.validity[i] =
                 IF i <= Len(sv_column.validity)
                 THEN sv_validity[i] /\ sv_column.validity[i]
                 ELSE FALSE

\* C13 witness: set_validity has returned for a nullable column with a
\* present entry kept by the validity, and the validity is longer than the
\* column's bitmap and set at a position beyond it.
C13_Witness ==
    /\ LongerValidityCall
    /\ sv_result.status = "Ok"
    /\ Len(sv_validity) > Len(sv_column.validity)
    /\ \E i \in 1..Len(sv_column.validity) : sv_column.validity[i] /\ sv_validity[i]
    /\ \E i \in (Len(sv_column.validity) + 1)..Len(sv_validity) : sv_validity[i]

\* ------------------------------------------------------------------ repeated-record claims
\* The marker of the most recent record of a position in the matched set.
LatestMarker(pos) ==
    LET recs == {k \in 1..Len(build_indexes) : Position(build_indexes[k]) = pos}
        last == CHOOSE k \in recs : \A j \in recs : j <= k
    IN  build_indexes[last].marker

\* C14: in a full join, when a position has been recorded several times
\* with different markers, the finalizer decides on the most recently
\* recorded marker: the row is in the returned list iff that marker is
\* Some(False).
C14_LatestMarkerDecides ==
    (join_type = "Full" /\ fin_pc = "done") =>
        \A pos \in RowSpacePositions(chunks) :
            Cardinality(RecordedMarkers(pos)) >= 2 =>
                (Occurrences(unmatched_build_indexes, pos) >= 1
                    <=> LatestMarker(pos) = "False")

\* ------------------------------------------------------------------ second-pass claims
\* C15: a step of find_unmatched_build_indexes, in a first or a second
\* pass, never changes the count of a row already in the match-count map;
\* the map holds one entry per row, and an entry the step adds is that of
\* an unmatched row, with count 0.
C15_SecondPassKeepsCounts ==
    [][fin_pc = "scan" =>
          /\ \A pos \in DOMAIN row_state :
                pos \in DOMAIN row_state' /\ row_state'[pos] = row_state[pos]
          /\ \A pos \in (DOMAIN row_state') \ (DOMAIN row_state) :
                /\ row_state'[pos] = 0
                /\ RecordedMarkers(pos) = {}
                /\ pos = <<chunk_index, row_index>>]_vars

\* C15 witness: the second pass has returned over a match-count map that
\* held, when it began, a count of 0 for an unmatched row (left by the
\* first pass) and a positive count for a matched row.
C15_Witness ==
    /\ phase = "second pass"
    /\ fin_pc = "done"
    /\ \E p, q \in RowSpacePositions(chunks) :
          /\ RecordedMarkers(p) = {}
          /\ p \in DOMAIN row_state /\ row_state[p] = 0
          /\ Occurrences(unmatched_build_indexes, p) = 1
          /\ RecordedMarkers(q) # {}
          /\ row_state[q] >= 1

\* ------------------------------------------------------------------ read_row claims
\* Number of delimiter-separated fields of a row.
FieldCount(buf) == 1 + Cardinality({k \in 1..Len(buf) : buf[k] = field_delimiter})

\* Every field of the row decodes.
FieldsDecode(buf) == \A k \in 1..Len(buf) : buf[k] \in {field_delimiter, "a"}

\* C16: read_row rejects every malformed row by returning a BadBytes error
\* value: a row with more fields than columns returns 'too many columns', a
\* row with fewer fields returns 'need N columns, find M only', and no
\* deserializer at or beyond num_columns is indexed (the call does not
\* panic). Read for rows whose fields decode.
C16_MalformedRowsRejected ==
    (rr_result.status \notin {"idle", "pending"}) =>
        /\ rr_result.status # "Panic"
        /\ rr_result.status = "Err" => rr_result.code = "BadBytes"
        /\ (FieldsDecode(rr_buf) /\ FieldCount(rr_buf) > rr_num_columns) =>
              rr_result = BadBytes(<<"too many columns">>)
        /\ (FieldsDecode(rr_buf) /\ FieldCount(rr_buf) < rr_num_columns) =>
              rr_result = BadBytes(<<"need", rr_num_columns, "columns, find",
                                     FieldCount(rr_buf), "only">>)

\* ------------------------------------------------------------------ accepted-match claims
\* C17: in a full join, a build row for which some recorded marker is
\* Some(True) is never in the list find_unmatched_build_indexes returns,
\* whatever the order in which its True and False matches were recorded.
C17_AcceptedMatchNeverUnmatched ==
    (join_type = "Full" /\ fin_pc = "done") =>
        \A pos \in RowSpacePositions(chunks) :
            "True" \in RecordedMarkers(pos) =>
                Occurrences(unmatched_build_indexes, pos) = 0

====
